---- MODULE Spec2Model ----
(***************************************************************************)
(* Audubon_F21: the detection dataset adapter (src/src/data/dataloader.py), *)
(* the optimizer factory (src/src/optimizers/sgd.py) and the plotting       *)
(* routines (src/utils/data_vis.py) as state machines.                      *)
(*                                                                          *)
(* Three specifications share the variables:                                *)
(*   Spec     - ObjectDetectionDataset / get_od_dataloader, one step of     *)
(*              __getitem__ per action, in source order                     *)
(*   SpecSgd  - get_sgd_optim                                               *)
(*   SpecVis  - the routines of data_vis                                    *)
(***************************************************************************)
EXTENDS Integers, Sequences, FiniteSets, TLC

(***************************************************************************)
(* Bounds of the model.                                                     *)
(***************************************************************************)
\* longest jpg_paths / csv_paths list handed to the dataset
NumImages == 1
\* most rows in one annotation table
MaxRows == 2
\* largest pixel coordinate of an annotation (also the width of an image)
CoordMax == 3
\* most parameters of a model handed to get_sgd_optim
MaxParams == 3

(***************************************************************************)
(* Program constants.                                                       *)
(***************************************************************************)
\* the label of every box in bird-only mode: [1] * num_objs
BirdLabel == 1
\* number of classes of the species model, CONFIG['model']
NumClass == 23
\* significand bits of torch.float32, the dtype of the box tensor
Float32Bits == 24

VARIABLES
    \* ---- ObjectDetectionDataset (self._*) and how it was built
    built,          \* "none" | "get_od_dataloader"
    species,        \* the species argument of get_od_dataloader
    jpg_paths,      \* self._jpg_paths
    csv_paths,      \* self._csv_paths
    transform,      \* self._transform: "None" or the name of a callable
    bird_only,      \* self._bird_only
    \* ---- one call of __getitem__
    pc,             \* position in __getitem__
    idx,            \* the argument
    image_path, target_path,
    image,          \* the loaded image
    target_df,      \* the annotation table csv_to_df returned
    num_objs, labels, boxes, area, iscrowd,
    target,         \* the target dict
    result,         \* what __getitem__ returned: <<>> or <<image, target>>
    error,          \* the exception that ended the call, "" if none
    opened,         \* the files opened so far by this call, in order
    transform_log,  \* one entry [arg, ret] per call of self._transform
    \* ---- get_sgd_optim
    sgd_pc, sgd_model, sgd_args, sgd_params, optimizer, sgd_error,
    \* ---- data_vis
    SAVE_FIG, vis_pc, vis_fn, vis_ret, vis_fig, disk, wrote, vis_error

dsVars == <<built, species, jpg_paths, csv_paths, transform, bird_only, pc, idx,
            image_path, target_path, image, target_df, num_objs, labels, boxes,
            area, iscrowd, target, result, error, opened, transform_log>>
sgdVars == <<sgd_pc, sgd_model, sgd_args, sgd_params, optimizer, sgd_error>>
visVars == <<SAVE_FIG, vis_pc, vis_fn, vis_ret, vis_fig, disk, wrote, vis_error>>
vars == <<dsVars, sgdVars, visVars>>

(***************************************************************************)
(* Numbers: the conversions the tensors apply.                              *)
(***************************************************************************)
RECURSIVE Pow2(_)
Pow2(n) == IF n = 0 THEN 1 ELSE 2 * Pow2(n - 1)

\* the spacing of float32 values around magnitude m: 1 below 2^24, then doubling
RECURSIVE Ulp(_, _)
Ulp(m, u) == IF m < u * Pow2(Float32Bits) THEN u ELSE Ulp(m, 2 * u)

\* a non-negative integer rounded to the nearest float32, ties to even
RoundMag(m) ==
    LET u == Ulp(m, 1)
        q == m \div u
        r == m % u
    IN  IF 2 * r < u THEN q * u
        ELSE IF 2 * r > u THEN (q + 1) * u
        ELSE IF q % 2 = 0 THEN q * u ELSE (q + 1) * u

\* torch.as_tensor(..., dtype=torch.float32) of an integer, and the rounding of
\* every float32 operation
F32(x) == IF x < 0 THEN -RoundMag(-x) ELSE RoundMag(x)

\* torch.tensor(..., dtype=torch.int64) of an integer column (numpy int64): the
\* value is kept; every integer of the model is far inside the int64 range
I64(x) == x

(***************************************************************************)
(* Python list indexing: self._jpg_paths[idx].                              *)
(***************************************************************************)
\* the indices a list of length n accepts; negative ones count from the end
InRangeNonNegative(n, i) == 0 <= i /\ i < n
InRange(n, i) == -n <= i /\ i < n

\* 1-based position of list[i]
Pos(n, i) == IF i >= 0 THEN i + 1 ELSE n + i + 1

(***************************************************************************)
(* Inputs.                                                                  *)
(***************************************************************************)
Paths(kind, n) == [k \in 1..n |-> <<kind, k>>]

\* the callables handed in as transform; "None" is Python's None
Transforms == {"None", "HFlip"}

\* class ids of the species model, the bird class among them
ClassIds == {BirdLabel, NumClass - 1}

\* annotation boxes <<xmin, ymin, xmax, ymax>>: every orientation of a
\* CoordMax x 1 box (xmax < xmin and ymax < ymin included) and an empty box
Boxes ==
    {b \in {0, CoordMax} \X {0, 1} \X {0, CoordMax} \X {0, 1} : b[1] # b[3] /\ b[2] # b[4]}
    \cup {<<1, 1, 1, 1>>}

\* one row of an annotation table, with and without the class_id column
RowWithClass(b, c) ==
    [xmin |-> b[1], ymin |-> b[2], xmax |-> b[3], ymax |-> b[4], class_id |-> c]
RowWithoutClass(b) ==
    [xmin |-> b[1], ymin |-> b[2], xmax |-> b[3], ymax |-> b[4]]

RowsWithClass == {RowWithClass(b, c) : b \in Boxes, c \in ClassIds}
RowsWithoutClass == {RowWithoutClass(b) : b \in Boxes}

SeqsUpTo(S, n) == UNION {[1..k -> S] : k \in 0..n}

\* the tables csv_to_df can return: up to MaxRows rows, with or without a
\* class_id column
Tables ==
    [columns : {"box+class_id"}, rows : SeqsUpTo(RowsWithClass, MaxRows)]
    \cup
    [columns : {"box"}, rows : SeqsUpTo(RowsWithoutClass, MaxRows)]

HasClassId(df) == df.columns = "box+class_id"

NoTable == [columns |-> "", rows |-> <<>>]
NoImage == [path |-> <<>>, mode |-> "", flipped |-> FALSE]

NoTarget == <<>>

(***************************************************************************)
(* ObjectDetectionDataset.__getitem__: the values it computes.              *)
(***************************************************************************)
\* labels (lines 30-33); the multi-species branch needs the class_id column
LabelsFail(bo, df) == ~bo /\ ~HasClassId(df)

LabelsIgnoringMode(bo, df) ==
    IF HasClassId(df)
    THEN [i \in 1..Len(df.rows) |-> I64(df.rows[i].class_id)]
    ELSE [i \in 1..Len(df.rows) |-> BirdLabel]
LabelsReversed(bo, df) ==
    IF bo
    THEN [i \in 1..Len(df.rows) |-> BirdLabel]
    ELSE [i \in 1..Len(df.rows) |-> I64(df.rows[Len(df.rows) + 1 - i].class_id)]
Labels(bo, df) ==
    IF bo
    THEN [i \in 1..Len(df.rows) |-> BirdLabel]
    ELSE [i \in 1..Len(df.rows) |-> I64(df.rows[i].class_id)]

\* boxes (lines 36-43): one [x_1, y_1, x_2, y_2] per row, as float32
BoxOfRow(r) == <<F32(r.xmin), F32(r.ymin), F32(r.xmax), F32(r.ymax)>>
BoxList(df, n) == [i \in 1..n |-> BoxOfRow(df.rows[i])]

\* torch.as_tensor of an empty list is a 1-d tensor of shape (0,), of a list of
\* N >= 1 four-element lists a 2-d tensor of shape (N, 4)
TensorDim(list) == IF Len(list) = 0 THEN 1 ELSE 2

\* area (line 46): (boxes[:, 3] - boxes[:, 1]) * (boxes[:, 2] - boxes[:, 0])
AreaClamped(bx) ==
    [i \in 1..Len(bx) |->
        LET a == F32(F32(bx[i][4] - bx[i][2]) * F32(bx[i][3] - bx[i][1]))
        IN  IF a < 0 THEN 0 ELSE a]
Area(bx) ==
    [i \in 1..Len(bx) |-> F32(F32(bx[i][4] - bx[i][2]) * F32(bx[i][3] - bx[i][1]))]

\* iscrowd (line 49): torch.zeros((num_objs,))
IsCrowdOnes(n) == [i \in 1..n |-> 1]
IsCrowd(n) == [i \in 1..n |-> 0]

\* target (lines 52-57)
MakeTarget(bx, lb, i, ar, ic) ==
    [boxes |-> bx, labels |-> lb, image_id |-> <<I64(i)>>, area |-> ar, iscrowd |-> ic]

TargetKeys == {"boxes", "labels", "image_id", "area", "iscrowd"}

\* the callable self._transform applied to (image, target): a horizontal flip
\* mirrors the image and the x coordinates of every box
CallTransform(t, img, tgt) ==
    IF t = "HFlip"
    THEN <<[img EXCEPT !.flipped = ~@],
           [tgt EXCEPT !.boxes =
               [i \in 1..Len(tgt.boxes) |->
                   <<F32(CoordMax - tgt.boxes[i][3]), tgt.boxes[i][2],
                     F32(CoordMax - tgt.boxes[i][1]), tgt.boxes[i][4]>>]]>>
    ELSE <<img, tgt>>

\* line 61: image, target = self._transform(image, target)
RebindDiscarded(img, tgt, ret) == <<img, tgt>>
Rebind(img, tgt, ret) == ret

\* line 77: ObjectDetectionDataset(jpg_paths, csv_paths, transform, species)
BirdOnlyNegated(sp) == ~sp
BirdOnlyOfSpecies(sp) == sp

(***************************************************************************)
(* Initial state: nothing constructed, no call in progress.                 *)
(***************************************************************************)
NoCall ==
    /\ idx = 0
    /\ image_path = <<>>
    /\ target_path = <<>>
    /\ image = NoImage
    /\ target_df = NoTable
    /\ num_objs = 0
    /\ labels = <<>>
    /\ boxes = <<>>
    /\ area = <<>>
    /\ iscrowd = <<>>
    /\ target = NoTarget
    /\ result = <<>>
    /\ error = ""
    /\ opened = <<>>
    /\ transform_log = <<>>

InitDs ==
    /\ built = "none"
    /\ species = FALSE
    /\ jpg_paths = <<>>
    /\ csv_paths = <<>>
    /\ transform = "None"
    /\ bird_only = TRUE
    /\ pc = "idle"
    /\ NoCall

InitSgd ==
    /\ sgd_pc = "idle"
    /\ sgd_model = <<>>
    /\ sgd_args = [lr |-> 0, momentum |-> 0, weight_decay |-> 0]
    /\ sgd_params = <<>>
    /\ optimizer = <<>>
    /\ sgd_error = ""

InitVis ==
    /\ SAVE_FIG \in BOOLEAN
    /\ vis_pc = "idle"
    /\ vis_fn = ""
    /\ vis_ret = "None"
    /\ vis_fig = FALSE
    /\ disk = {}
    /\ wrote = {}
    /\ vis_error = ""

Init == InitDs /\ InitSgd /\ InitVis

(***************************************************************************)
(* ObjectDetectionDataset: construction.                                    *)
(***************************************************************************)
callVars == <<idx, image_path, target_path, image, target_df, num_objs, labels,
              boxes, area, iscrowd, target, result, error, opened, transform_log>>
selfVars == <<built, species, jpg_paths, csv_paths, transform, bird_only>>

\* get_od_dataloader (lines 75-82), the one place that constructs the dataset:
\* __init__ (lines 14-17) stores the four arguments; the DataLoader keeps the
\* dataset, which callers also index directly (od_dataloader.dataset[i])
GetOdDataloader(nj, nc, t, sp) ==
    /\ pc = "idle"
    /\ built' = "get_od_dataloader"
    /\ species' = sp
    /\ jpg_paths' = Paths("jpg", nj)
    /\ csv_paths' = Paths("csv", nc)
    /\ transform' = t
    /\ bird_only' = BirdOnlyOfSpecies(sp)
    /\ UNCHANGED <<pc, callVars, sgdVars, visVars>>

\* __len__ (lines 65-67)
DatasetLen == Len(jpg_paths)

(***************************************************************************)
(* ObjectDetectionDataset.__getitem__, one action per step.                 *)
(***************************************************************************)
\* the call dataset[i]
GetItem(i) ==
    /\ pc = "idle"
    /\ built # "none"
    /\ idx' = i
    /\ pc' = "lookup"
    /\ UNCHANGED <<selfVars, image_path, target_path, image, target_df, num_objs,
                   labels, boxes, area, iscrowd, target, result, error, opened,
                   transform_log, sgdVars, visVars>>

Raise(e) ==
    /\ error' = e
    /\ pc' = "failed"

\* line 22: self._jpg_paths[idx], self._csv_paths[idx]
Lookup ==
    /\ pc = "lookup"
    /\ IF InRange(Len(jpg_paths), idx) /\ InRange(Len(csv_paths), idx)
       THEN /\ image_path' = jpg_paths[Pos(Len(jpg_paths), idx)]
            /\ target_path' = csv_paths[Pos(Len(csv_paths), idx)]
            /\ pc' = "open_image"
            /\ UNCHANGED error
       ELSE /\ Raise("IndexError")
            /\ UNCHANGED <<image_path, target_path>>
    /\ UNCHANGED <<selfVars, idx, image, target_df, num_objs, labels, boxes, area,
                   iscrowd, target, result, opened, transform_log, sgdVars, visVars>>

\* line 25: Image.open(image_path).convert('RGB'); the file may be missing
OpenImage ==
    /\ pc = "open_image"
    /\ \E exists \in BOOLEAN :
        IF exists
        THEN /\ opened' = Append(opened, image_path)
             /\ image' = [path |-> image_path, mode |-> "RGB", flipped |-> FALSE]
             /\ pc' = "read_csv"
             /\ UNCHANGED error
        ELSE /\ Raise("FileNotFoundError")
             /\ UNCHANGED <<opened, image>>
    /\ UNCHANGED <<selfVars, idx, image_path, target_path, target_df, num_objs, labels,
                   boxes, area, iscrowd, target, result, transform_log, sgdVars, visVars>>

\* lines 28-33: csv_to_df(target_path), num_objs, labels
ReadCsv ==
    /\ pc = "read_csv"
    /\ \/ /\ Raise("FileNotFoundError")
          /\ UNCHANGED <<opened, target_df, num_objs, labels>>
       \/ \E df \in Tables :
            /\ opened' = Append(opened, target_path)
            /\ target_df' = df
            /\ num_objs' = Len(df.rows)
            /\ IF LabelsFail(bird_only, df)
               THEN /\ Raise("KeyError")
                    /\ UNCHANGED labels
               ELSE /\ labels' = Labels(bird_only, df)
                    /\ pc' = "boxes"
                    /\ UNCHANGED error
    /\ UNCHANGED <<selfVars, idx, image_path, target_path, image, boxes, area, iscrowd,
                   target, result, transform_log, sgdVars, visVars>>

\* lines 36-43: the box list and its tensor
MakeBoxes ==
    /\ pc = "boxes"
    /\ boxes' = BoxList(target_df, num_objs)
    /\ pc' = "area"
    /\ UNCHANGED <<selfVars, idx, image_path, target_path, image, target_df, num_objs,
                   labels, area, iscrowd, target, result, error, opened, transform_log,
                   sgdVars, visVars>>

\* line 46: boxes[:, 3] needs a 2-d tensor
ComputeArea ==
    /\ pc = "area"
    /\ IF TensorDim(boxes) = 2
       THEN /\ area' = Area(boxes)
            /\ pc' = "target"
            /\ UNCHANGED error
       ELSE /\ Raise("IndexError")
            /\ UNCHANGED area
    /\ UNCHANGED <<selfVars, idx, image_path, target_path, image, target_df, num_objs,
                   labels, boxes, iscrowd, target, result, opened, transform_log,
                   sgdVars, visVars>>

\* lines 49-57: iscrowd and the target dict
BuildTarget ==
    /\ pc = "target"
    /\ iscrowd' = IsCrowd(num_objs)
    /\ target' = MakeTarget(boxes, labels, idx, area, iscrowd')
    /\ pc' = "transform"
    /\ UNCHANGED <<selfVars, idx, image_path, target_path, image, target_df, num_objs,
                   labels, boxes, area, result, error, opened, transform_log,
                   sgdVars, visVars>>

\* lines 60-63: the optional transform, then return image, target
TransformAndReturn ==
    /\ pc = "transform"
    /\ IF transform # "None"
       THEN LET ret == CallTransform(transform, image, target)
                new == Rebind(image, target, ret)
            IN  /\ transform_log' = Append(transform_log,
                                           [arg |-> <<image, target>>, ret |-> ret])
                /\ image' = new[1]
                /\ target' = new[2]
                /\ result' = <<new[1], new[2]>>
       ELSE /\ result' = <<image, target>>
            /\ UNCHANGED <<image, target, transform_log>>
    /\ pc' = "done"
    /\ UNCHANGED <<selfVars, idx, image_path, target_path, target_df, num_objs, labels,
                   boxes, area, iscrowd, error, opened, sgdVars, visVars>>

\* the caller takes the result (or the exception); the locals are gone
Finish ==
    /\ pc \in {"done", "failed"}
    /\ pc' = "idle"
    /\ idx' = 0
    /\ image_path' = <<>>
    /\ target_path' = <<>>
    /\ image' = NoImage
    /\ target_df' = NoTable
    /\ num_objs' = 0
    /\ labels' = <<>>
    /\ boxes' = <<>>
    /\ area' = <<>>
    /\ iscrowd' = <<>>
    /\ target' = NoTarget
    /\ result' = <<>>
    /\ error' = ""
    /\ opened' = <<>>
    /\ transform_log' = <<>>
    /\ UNCHANGED <<selfVars, sgdVars, visVars>>

\* the indices a caller tries: every valid one and the first invalid on each side
Indices == -(NumImages + 1)..NumImages

Next ==
    \/ \E nj \in 0..NumImages, nc \in 0..NumImages, t \in Transforms, sp \in BOOLEAN :
         GetOdDataloader(nj, nc, t, sp)
    \/ \E i \in Indices : GetItem(i)
    \/ Lookup
    \/ OpenImage
    \/ ReadCsv
    \/ MakeBoxes
    \/ ComputeArea
    \/ BuildTarget
    \/ TransformAndReturn
    \/ Finish

Spec == Init /\ [][Next]_vars

(***************************************************************************)
(* get_sgd_optim (src/src/optimizers/sgd.py).                               *)
(***************************************************************************)
\* model.parameters(): parameter k of the model, trainable or frozen
Models == UNION {[1..n -> BOOLEAN] : n \in 0..MaxParams}
ParamsOf(flags) == [k \in 1..Len(flags) |-> [name |-> k, requires_grad |-> flags[k]]]

\* hyperparameters in units of 1e-4: invalid, zero, and the values the
\* repository uses (l_r 0.002, momentum 0.9, weight_decay 0.0005)
LrValues == {-1, 0, 20}
MomentumValues == {-1, 0, 9000}
WeightDecayValues == {-1, 0, 5}

\* line 18: [param for param in model.parameters() if param.requires_grad]
RECURSIVE Filter(_, _)
Filter(seq, keep) ==
    IF seq = <<>> THEN <<>>
    ELSE IF keep
         THEN (IF Head(seq).requires_grad THEN <<Head(seq)>> ELSE <<>>) \o Filter(Tail(seq), keep)
         ELSE <<Head(seq)>> \o Filter(Tail(seq), keep)

AllParams(model) == Filter(model, FALSE)
TrainableParams(model) == Filter(model, TRUE)

\* line 19: torch.optim.SGD raises ValueError for a negative learning rate,
\* momentum or weight decay, and for an empty parameter list
SgdRejects(params, a) ==
    \/ a.lr < 0
    \/ a.momentum < 0
    \/ a.weight_decay < 0
    \/ Len(params) = 0

\* get_sgd_optim (lines 4-20)
GetSgdOptim(flags, lr, momentum, weight_decay) ==
    /\ sgd_pc = "idle"
    /\ LET model == ParamsOf(flags)
           args == [lr |-> lr, momentum |-> momentum, weight_decay |-> weight_decay]
           params == TrainableParams(model)
       IN  /\ sgd_model' = model
           /\ sgd_args' = args
           /\ sgd_params' = params
           /\ IF SgdRejects(params, args)
              THEN /\ sgd_pc' = "raised"
                   /\ sgd_error' = "ValueError"
                   /\ optimizer' = <<>>
              ELSE /\ sgd_pc' = "returned"
                   /\ sgd_error' = ""
                   /\ optimizer' = <<[params |-> params, lr |-> lr, momentum |-> momentum,
                                      weight_decay |-> weight_decay]>>
    /\ UNCHANGED <<dsVars, visVars>>

\* the caller takes the optimizer (or the exception)
SgdFinish ==
    /\ sgd_pc \in {"returned", "raised"}
    /\ sgd_pc' = "idle"
    /\ sgd_model' = <<>>
    /\ sgd_args' = [lr |-> 0, momentum |-> 0, weight_decay |-> 0]
    /\ sgd_params' = <<>>
    /\ optimizer' = <<>>
    /\ sgd_error' = ""
    /\ UNCHANGED <<dsVars, visVars>>

NextSgd ==
    \/ \E flags \in Models, lr \in LrValues, m \in MomentumValues, wd \in WeightDecayValues :
         GetSgdOptim(flags, lr, m, wd)
    \/ SgdFinish

SpecSgd == Init /\ [][NextSgd]_vars

(***************************************************************************)
(* data_vis (src/utils/data_vis.py).  SAVE_FIG comes from the const module, *)
(* so either value is possible; it is fixed for the run.                    *)
(***************************************************************************)
PlotPaths == {"./plots/"}
Titles == {"train", "test", "val"}

FileName(path, title, ext) == <<path, title, ext>>

\* "if SAVE_FIG: fig.savefig(path + title + ext)"
Saved(path, title, ext) == IF SAVE_FIG THEN {FileName(path, title, ext)} ELSE {}

\* a routine that ends with "return fig" / without a return statement
VisEnd(fn, ret, files) ==
    /\ vis_pc = "idle"
    /\ vis_fn' = fn
    /\ vis_pc' = "returned"
    /\ vis_ret' = ret
    /\ vis_fig' = TRUE
    /\ wrote' = files
    /\ disk' = disk \cup files
    /\ vis_error' = ""
    /\ UNCHANGED <<SAVE_FIG, dsVars, sgdVars>>

\* a routine that stops at a missing input file, before any figure exists
VisRaise(fn, e) ==
    /\ vis_pc = "idle"
    /\ vis_fn' = fn
    /\ vis_pc' = "raised"
    /\ vis_ret' = "None"
    /\ vis_fig' = FALSE
    /\ wrote' = {}
    /\ vis_error' = e
    /\ UNCHANGED <<SAVE_FIG, disk, dsVars, sgdVars>>

\* plot_distribution (lines 23-60)
PlotDistribution(path, title) ==
    VisEnd("plot_distribution", "fig", Saved(path, title, ".pdf"))

\* plot_boxes (lines 62-95); plt.imread fails when the image is missing
PlotBoxes(exists, path, title) ==
    IF exists
    THEN VisEnd("plot_boxes", "fig", Saved(path, title, ".jpg"))
    ELSE VisRaise("plot_boxes", "FileNotFoundError")

\* plot_training_curves (lines 97-110)
PlotTrainingCurves(path, title) ==
    VisEnd("plot_training_curves", "fig", Saved(path, title, ".pdf"))

\* plot_precision_recall (lines 112-127)
PlotPrecisionRecall(path, title) ==
    VisEnd("plot_precision_recall", "fig", Saved(path, title, ".pdf"))

\* show (lines 129-137): never saves
Show == VisEnd("show", "fig", {})

\* visualize_predictions (lines 139-146): read_image fails when the image is
\* missing; fig = show(result), the optional savefig, and no return statement
VisualizePredictions(exists, path, title) ==
    IF exists
    THEN VisEnd("visualize_predictions", "None", Saved(path, title, ".jpg"))
    ELSE VisRaise("visualize_predictions", "RuntimeError")

\* plot_confusion_matrix (lines 148-150): pass
PlotConfusionMatrix ==
    /\ vis_pc = "idle"
    /\ vis_fn' = "plot_confusion_matrix"
    /\ vis_pc' = "returned"
    /\ vis_ret' = "None"
    /\ vis_fig' = FALSE
    /\ wrote' = {}
    /\ vis_error' = ""
    /\ UNCHANGED <<SAVE_FIG, disk, dsVars, sgdVars>>

\* the caller takes the result (or the exception)
VisFinish ==
    /\ vis_pc \in {"returned", "raised"}
    /\ vis_pc' = "idle"
    /\ vis_fn' = ""
    /\ vis_ret' = "None"
    /\ vis_fig' = FALSE
    /\ wrote' = {}
    /\ vis_error' = ""
    /\ UNCHANGED <<SAVE_FIG, disk, dsVars, sgdVars>>

NextVis ==
    \/ \E path \in PlotPaths, title \in Titles : PlotDistribution(path, title)
    \/ \E exists \in BOOLEAN, path \in PlotPaths, title \in Titles : PlotBoxes(exists, path, title)
    \/ \E path \in PlotPaths, title \in Titles : PlotTrainingCurves(path, title)
    \/ \E path \in PlotPaths, title \in Titles : PlotPrecisionRecall(path, title)
    \/ Show
    \/ \E exists \in BOOLEAN, path \in PlotPaths, title \in Titles :
         VisualizePredictions(exists, path, title)
    \/ PlotConfusionMatrix
    \/ VisFinish

SpecVis == Init /\ [][NextVis]_vars

(***************************************************************************)
(* Properties of __getitem__ (specification Spec).                          *)
(***************************************************************************)
\* the target dict is complete: about to be transformed, or already returned
Produced == pc \in {"transform", "done"}

\* the target as __getitem__ constructed it (what the transform, if any, was given)
BuiltTarget ==
    IF pc = "done" /\ transform # "None" THEN transform_log[1].arg[2] ELSE target

Rows == target_df.rows
NRows == Len(target_df.rows)

\* both files were there and the table has the columns the label mode reads
InputsUsable == Len(opened) = 2 /\ ~LabelsFail(bird_only, target_df)

\* C1: for every annotation table with N >= 0 rows, in both label modes,
\* __getitem__ returns a target whose labels have length N and whose boxes have
\* N rows, one [xmin, ymin, xmax, ymax] per annotation row in table order.
\* Fails on the code: a table with no rows ends the call with IndexError.
C1_LabelsAndBoxesHaveLengthN ==
    (pc \in {"done", "failed"} /\ InputsUsable) =>
        /\ pc = "done"
        /\ Len(BuiltTarget.labels) = NRows
        /\ Len(BuiltTarget.boxes) = NRows
        /\ \A i \in 1..NRows :
             BuiltTarget.boxes[i] = <<Rows[i].xmin, Rows[i].ymin, Rows[i].xmax, Rows[i].ymax>>

\* C2: in bird-only mode every entry of target['labels'] is 1, whatever the
\* class_id column holds and also when the table has no class_id column.
C2_BirdOnlyLabelsAreOne ==
    (Produced /\ bird_only) =>
        /\ \A i \in 1..Len(BuiltTarget.labels) : BuiltTarget.labels[i] = 1
        /\ (pc = "done" => \A i \in 1..Len(result[2].labels) : result[2].labels[i] = 1)

C2_Witness ==
    /\ pc = "done"
    /\ bird_only
    /\ HasClassId(target_df)
    /\ Len(result[2].labels) = MaxRows
    /\ \E i \in 1..NRows : Rows[i].class_id # 1

\* C3: target['area'] has one entry per box and entry i is
\* (xmax_i - xmin_i) * (ymax_i - ymin_i) of row i, negative products included.
C3_AreaIsWidthTimesHeight ==
    Produced =>
        /\ Len(BuiltTarget.area) = Len(BuiltTarget.boxes)
        /\ Len(BuiltTarget.area) = NRows
        /\ \A i \in 1..NRows :
             /\ BuiltTarget.area[i] = (Rows[i].xmax - Rows[i].xmin) * (Rows[i].ymax - Rows[i].ymin)
             /\ BuiltTarget.area[i] =
                  (BuiltTarget.boxes[i][3] - BuiltTarget.boxes[i][1])
                  * (BuiltTarget.boxes[i][4] - BuiltTarget.boxes[i][2])

C3_Witness ==
    /\ pc = "done"
    /\ NRows = MaxRows
    /\ Rows[1].xmax < Rows[1].xmin
    /\ Rows[1].ymax > Rows[1].ymin
    /\ BuiltTarget.area[1] < 0
    /\ Rows[2].ymax < Rows[2].ymin
    /\ BuiltTarget.area[2] # BuiltTarget.area[1]

\* C4: target['iscrowd'] has exactly one entry per annotation row, every one 0,
\* in both label modes.
C4_IsCrowdAllZero ==
    Produced =>
        /\ Len(BuiltTarget.iscrowd) = NRows
        /\ \A i \in 1..Len(BuiltTarget.iscrowd) : BuiltTarget.iscrowd[i] = 0

C4_Witness ==
    /\ pc = "done"
    /\ ~bird_only
    /\ NRows = MaxRows
    /\ Len(result[2].iscrowd) = MaxRows

\* C5: in multi-species mode labels[i] is the class_id of annotation row i, so
\* label i and box i come from the same row.
C5_SpeciesLabelsFollowRows ==
    (Produced /\ ~bird_only) =>
        /\ Len(BuiltTarget.labels) = NRows
        /\ \A i \in 1..NRows :
             /\ BuiltTarget.labels[i] = Rows[i].class_id
             /\ BuiltTarget.boxes[i] =
                  <<Rows[i].xmin, Rows[i].ymin, Rows[i].xmax, Rows[i].ymax>>

C5_Witness ==
    /\ pc = "done"
    /\ ~bird_only
    /\ NRows = MaxRows
    /\ Rows[1].class_id # Rows[2].class_id
    /\ Rows[1].xmin # Rows[2].xmin
    /\ result[2].labels[1] # result[2].labels[2]

\* C6: a transform that is not None is called exactly once, with the target
\* holding boxes, labels, image_id, area and iscrowd, and __getitem__ returns
\* exactly the pair it returns; with transform None the loaded image and the
\* constructed target are returned unchanged.
LoadedImage == [path |-> image_path, mode |-> "RGB", flipped |-> FALSE]
ConstructedTarget == MakeTarget(boxes, labels, idx, area, iscrowd)

C6_TransformOnceOnCompleteTarget ==
    /\ pc # "done" => transform_log = <<>>
    /\ pc = "done" =>
         IF transform # "None"
         THEN /\ Len(transform_log) = 1
              /\ DOMAIN transform_log[1].arg[2] = TargetKeys
              /\ transform_log[1].arg = <<LoadedImage, ConstructedTarget>>
              /\ result = transform_log[1].ret
         ELSE /\ transform_log = <<>>
              /\ result = <<LoadedImage, ConstructedTarget>>

C6_Witness ==
    /\ pc = "done"
    /\ transform = "HFlip"
    /\ Len(transform_log) = 1
    /\ result = transform_log[1].ret
    /\ result[1] # transform_log[1].arg[1]
    /\ result[2].boxes # transform_log[1].arg[2].boxes

\* the call ended at line 22, before any file was opened
LookupFailed == pc = "failed" /\ error = "IndexError" /\ opened = <<>>
PastLookup == pc \notin {"idle", "lookup"}

\* C7 as claimed: __getitem__(idx) fails, before any file is opened, for every
\* idx outside 0..L-1, and the lookup does not fail for any idx inside 0..L-1.
C7_FailsOutsideZeroToLen ==
    PastLookup =>
        /\ (idx \notin 0..(DatasetLen - 1)) => LookupFailed
        /\ (idx \in 0..(DatasetLen - 1)) => ~LookupFailed

\* C7 amended: the call fails at the lookup, before any file is opened, for every
\* idx >= L and every idx < -L; an idx in -L..-1 selects element L + idx; the
\* lookup succeeds exactly when -L <= idx < L and -M <= idx < M, M = len(csv_paths).
C7_FailsOutsideListRange ==
    PastLookup =>
        /\ (idx >= DatasetLen \/ idx < -DatasetLen) => LookupFailed
        /\ (/\ -DatasetLen <= idx /\ idx < DatasetLen
            /\ -Len(csv_paths) <= idx /\ idx < Len(csv_paths)) =>
              /\ ~LookupFailed
              /\ image_path = jpg_paths[IF idx < 0 THEN DatasetLen + idx + 1 ELSE idx + 1]
        /\ (-DatasetLen <= idx /\ idx < DatasetLen
            /\ ~(-Len(csv_paths) <= idx /\ idx < Len(csv_paths))) => LookupFailed

C7_Witness ==
    /\ pc = "done"
    /\ idx = -1
    /\ DatasetLen >= 1
    /\ image_path = jpg_paths[DatasetLen]
    /\ Len(opened) = 2

\* C10: the dataset get_od_dataloader builds has bird_only equal to species; with
\* species true every label is the constant 1, with species false the labels are
\* the per-row class_id values.
C10_SpeciesArgumentIsBirdOnly ==
    built = "get_od_dataloader" =>
        /\ bird_only = species
        /\ Produced =>
             /\ species => \A i \in 1..NRows : BuiltTarget.labels[i] = 1
             /\ ~species => \A i \in 1..NRows : BuiltTarget.labels[i] = Rows[i].class_id

C10_Witness ==
    /\ built = "get_od_dataloader"
    /\ pc = "done"
    /\ species
    /\ HasClassId(target_df)
    /\ \E i \in 1..NRows : Rows[i].class_id = NumClass - 1 /\ result[2].labels[i] = 1

(***************************************************************************)
(* Properties of get_sgd_optim (specification SpecSgd).                     *)
(***************************************************************************)
Trainable == {k \in 1..Len(sgd_model) : sgd_model[k].requires_grad}
HyperparametersValid ==
    sgd_args.lr >= 0 /\ sgd_args.momentum >= 0 /\ sgd_args.weight_decay >= 0

\* the list handed to SGD is exactly the trainable parameters, in model order
HandedExactlyTrainable ==
    /\ Len(sgd_params) = Cardinality(Trainable)
    /\ \A k \in 1..Len(sgd_params) : sgd_params[k].requires_grad
    /\ \A k \in Trainable : \E j \in 1..Len(sgd_params) : sgd_params[j] = sgd_model[k]
    /\ \A j \in 1..Len(sgd_params) : \A k \in 1..Len(sgd_params) :
          j < k => sgd_params[j].name < sgd_params[k].name

\* C8 as claimed: SGD is handed exactly the trainable parameters in order, and
\* an optimizer is returned for every model, one with no trainable parameter
\* included.
C8_OptimizerForEveryModel ==
    (sgd_pc # "idle" /\ HyperparametersValid) =>
        /\ HandedExactlyTrainable
        /\ sgd_pc = "returned"
        /\ optimizer[1].params = sgd_params

\* C8 amended: SGD is handed exactly the trainable parameters in order; an
\* optimizer over them is returned when there is at least one and no
\* hyperparameter is negative; with no trainable parameter SGD raises ValueError.
C8_OptimizerWhenSomeTrainable ==
    sgd_pc # "idle" =>
        /\ HandedExactlyTrainable
        /\ (HyperparametersValid /\ Trainable # {}) =>
              /\ sgd_pc = "returned"
              /\ optimizer[1].params = sgd_params
              /\ optimizer[1].lr = sgd_args.lr
        /\ Trainable = {} => (sgd_pc = "raised" /\ sgd_error = "ValueError" /\ optimizer = <<>>)

C8_Witness ==
    /\ sgd_pc = "returned"
    /\ Len(sgd_model) = MaxParams
    /\ ~sgd_model[1].requires_grad
    /\ sgd_model[2].requires_grad
    /\ sgd_model[MaxParams].requires_grad
    /\ Len(optimizer[1].params) = MaxParams - 1

(***************************************************************************)
(* Properties of data_vis (specification SpecVis).                          *)
(***************************************************************************)
\* C9: every visualization routine returns a chart object, whether or not
\* SAVE_FIG is set, and writes a file only when SAVE_FIG is true.
\* Fails on the code: visualize_predictions and plot_confusion_matrix return None.
C9_EveryRoutineReturnsChart ==
    vis_pc = "returned" =>
        /\ vis_ret = "fig"
        /\ wrote # {} => SAVE_FIG
====
